---- MODULE Spec2Model ----
(***************************************************************************)
(* Zenview Eyewear Builder backend (src/main.py, src/schemas.py).          *)
(*                                                                         *)
(* Two specifications:                                                     *)
(*   Spec        the HTTP handlers of main.py acting on the "project"      *)
(*               collection (create / list / get / update / export);       *)
(*   SpecBundle  build_export_bundle applied to project records drawn      *)
(*               from a bounded set, optional keys present or missing.     *)
(*                                                                         *)
(* Python values: a dict is a function on its keys, a list is a sequence,  *)
(* None is the constant None.  Rendered text is a sequence of tokens: the  *)
(* literal pieces of the f-string template (kind "lit") and the            *)
(* interpolated values as str() prints them (kind "val").  The code does   *)
(* not escape interpolated values; here an interpolated value is always    *)
(* one "val" token, i.e. stored text is taken to carry no markup.          *)
(* The database handle db is taken to be connected.                        *)
(***************************************************************************)
EXTENDS Integers, Sequences, FiniteSets, TLC

VARIABLES store, created, req, resp, project, bundle

vars == <<store, created, req, resp, project, bundle>>

\* ---------------------------------------------------------------- bounds
MaxDocs == 2      \* documents the collection may hold
MaxLen == 2       \* length of the lists of a rendered record

\* ------------------------------------------------------- python helpers
None == "None:NoneType"

\* dict.get(key, default); dict.get(key) is dict_get(d, key, None)
dict_get(d, key, default) == IF key \in DOMAIN d THEN d[key] ELSE default

\* `a or b`: None and the empty string are falsy
py_or(a, b) == IF a = None \/ a = "" THEN b ELSE a

\* str() of an interpolated text value: None prints as "None"
py_str(v) == IF v = None THEN "None" ELSE v

\* str() of a float holding a whole number: 420.0 prints as "420.0"
py_str_float(p) == ToString(p) \o ".0"

Restrict(d, keys) == [k \in (DOMAIN d \cap keys) |-> d[k]]

SeqsUpTo(S, n) == UNION {[1..k -> S] : k \in 0..n}

RECURSIVE Join(_)
\* ''.join(parts), on token sequences
Join(parts) == IF parts = <<>> THEN <<>> ELSE Head(parts) \o Join(Tail(parts))

Lit(s) == [kind |-> "lit", s |-> s]
Val(s) == [kind |-> "val", s |-> s]

\* -------------------------------------------------------------- schemas
ProjectFields == {"name", "description", "products", "theme", "sections",
                  "images", "exported_html", "published_path"}
SectionsTextFields == {"hero_title", "hero_subtitle", "hero_cta", "story_title",
                       "story_body", "craft_title", "lookbook_title"}
SectionsListFields == {"craft_points", "testimonials", "faqs"}
ImageSlots == {"hero", "lifestyle", "closeup", "flatlay"}

ThemeDefault ==
  [accent |-> "#C2A676", background |-> "#FAFAF8", text |-> "#111111",
   serif |-> "'Playfair Display', serif", sans |-> "Inter, system-ui"]

ImagesDefault == [hero |-> None, lifestyle |-> None, closeup |-> None, flatlay |-> None]

SectionsDefault ==
  [hero_title |-> "Zenview Eyewear",
   hero_subtitle |-> "See Without Noise",
   hero_cta |-> "Shop the Collection",
   story_title |-> "Quiet Luxury, Considered Design",
   story_body |-> "Handcrafted eyewear balancing proportion, material and restraint.",
   craft_title |-> "Craftsmanship & Materials",
   craft_points |-> <<"Premium Italian acetate, hand-polished",
                      "Anti-reflective Zeiss lenses",
                      "Featherlight titanium hardware",
                      "Precision-balanced comfort fit">>,
   lookbook_title |-> "Lookbook",
   testimonials |-> <<"Understated and impeccably made.",
                      "The only frames I wear now.",
                      "Pure, quiet confidence.">>,
   faqs |-> <<[q |-> "What makes Zenview different?",
               a |-> "A focus on restraint, proportion and material honesty."],
              [q |-> "Do you ship internationally?",
               a |-> "Yes, we ship worldwide with premium tracked service."],
              [q |-> "What is your return policy?",
               a |-> "30-day returns in original condition for a full refund."]>>]

Product(name, price, description, image) ==
  [name |-> name, price |-> price, description |-> description,
   image |-> image, gallery |-> <<>>]

ProductsDefault ==
  <<Product("Aero 01", 420, "Sculptural acetate, balanced silhouette", None),
    Product("Linea 02", 460, "Slim titanium, architectural lines", None),
    Product("Shade 03", 480, "Deep lens profile, cinematic", None)>>

ProjectDefault ==
  [name |-> "Zenview Eyewear", description |-> None, products |-> ProductsDefault,
   theme |-> ThemeDefault, sections |-> SectionsDefault, images |-> ImagesDefault,
   exported_html |-> None, published_path |-> None]

\* ------------------------------------------------- build_export_bundle
HeroPlaceholder == "https://placehold.co/1600x900?text=Zenview+Hero"
FramePlaceholder == "https://placehold.co/800x600?text=Frame"
StoryPlaceholder == "https://placehold.co/1200x1400?text=Lifestyle"
LookLifestylePlaceholder == "https://placehold.co/800x1000"
LookFlatlayPlaceholder == "https://placehold.co/1000x800"
LookCloseupPlaceholder == "https://placehold.co/900x900"

\* the literal pieces of the HTML template, in template order
HtmlHead == Lit("<!doctype html>...<header class=\"nav\">...</header>\n<section class=\"hero\">\n  <div class=\"hero-content\">\n    <h1>")
HeroSubOpen == Lit("</h1>\n    <p class=\"sub\">")
HeroCtaOpen == Lit("</p>\n    <a class=\"cta\" href=\"#collections\">")
HeroMediaOpen == Lit("</a>\n  </div>\n  <div class=\"hero-media\" style=\"background-image:url('")
CollectionsOpen == Lit("')\"></div>\n</section>\n<section id=\"collections\" class=\"collections\">\n  <h2>Signature Collection</h2>\n  <div class=\"grid\">\n    ")
CardOpen == Lit("<div class='card'><div class='img' style=\\\"background-image:url('")
CardNameOpen == Lit("')\\\"></div><div class='info'><div class='name'>")
CardPriceOpen == Lit("</div><div class='price'>$ ")
CardClose == Lit("</div></div></div>")
StoryOpen == Lit("\n  </div>\n</section>\n<section id=\"story\" class=\"story\">\n  <div class=\"split\">\n    <div class=\"image\" style=\"background-image:url('")
StoryTitleOpen == Lit("')\"></div>\n    <div class=\"copy\">\n      <h3>")
StoryBodyOpen == Lit("</h3>\n      <p>")
CraftOpen == Lit("</p>\n    </div>\n  </div>\n</section>\n<section id=\"craft\" class=\"craft\">\n  <h2>")
FeaturesOpen == Lit("</h2>\n  <div class=\"features\">\n    ")
FeatOpen == Lit("<div class='feat'><div class='dot'></div><p>")
FeatClose == Lit("</p></div>")
LookbookOpen == Lit("\n  </div>\n</section>\n<section id=\"lookbook\" class=\"lookbook\">\n  <h2>")
MasonryOpen == Lit("</h2>\n  <div class=\"masonry\">\n    <img src=\"")
ImgNext == Lit("\" />\n    <img src=\"")
TestimonialsOpen == Lit("\" />\n  </div>\n</section>\n<section id=\"testimonials\" class=\"testimonials\">\n  ")
QuoteOpen == Lit("<blockquote>\\u201C")
QuoteClose == Lit("\\u201D</blockquote>")
FaqOpen == Lit("\n</section>\n<section id=\"faq\" class=\"faq\">\n  ")
DetailsOpen == Lit("<details><summary>")
DetailsAnswerOpen == Lit("</summary><p>")
DetailsClose == Lit("</p></details>")
FooterOpen == Lit("\n</section>\n<footer class=\"footer\">\n  <div class=\"inner\">\n    <div class=\"blurb\">Zenview Eyewear - ")
HtmlTail == Lit("</div>\n    <form class=\"newsletter\">...</form>\n  </div>\n</footer>\n<script src=\"./main.js\"></script>\n</body>\n</html>")

CssAccentOpen == Lit(":root{--accent:")
CssStatic == Lit(";--bg:#FAFAF8;--text:#111;--muted:#9A8C71}\n*{box-sizing:border-box}body{margin:0;background:var(--bg);color:var(--text);...}\n...")
JsStatic == Lit("\n// Smooth anchor scrolling\n...// Parallax hero\n...")

\* one product card (the inner f-string of the collections grid)
render_card(p) ==
  <<CardOpen, Val(py_or(dict_get(p, "image", None), FramePlaceholder)),
    CardNameOpen, Val(py_str(dict_get(p, "name", None))),
    CardPriceOpen, Val(py_str_float(p.price)), CardClose>>

\* [render_card(p) for p in products], joined
render_cards_skipfirst(products) ==
  Join([i \in 1..(Len(products) - 1) |-> render_card(products[i + 1])])
render_cards(products) ==
  Join([i \in 1..Len(products) |-> render_card(products[i])])

render_feats(points) ==
  Join([i \in 1..Len(points) |-> <<FeatOpen, Val(py_str(points[i])), FeatClose>>])

render_quotes(ts) ==
  Join([i \in 1..Len(ts) |-> <<QuoteOpen, Val(py_str(ts[i])), QuoteClose>>])

render_faqs(fs) ==
  Join([i \in 1..Len(fs) |->
         <<DetailsOpen, Val(py_str(dict_get(fs[i], "q", None))),
           DetailsAnswerOpen, Val(py_str(dict_get(fs[i], "a", None))),
           DetailsClose>>])

\* the three lookbook slots
render_lookbook_swapped(images) ==
  <<MasonryOpen, Val(py_or(dict_get(images, "lifestyle", None), LookLifestylePlaceholder)),
    ImgNext, Val(py_or(dict_get(images, "closeup", None), LookCloseupPlaceholder)),
    ImgNext, Val(py_or(dict_get(images, "flatlay", None), LookFlatlayPlaceholder))>>
render_lookbook(images) ==
  <<MasonryOpen, Val(py_or(dict_get(images, "lifestyle", None), LookLifestylePlaceholder)),
    ImgNext, Val(py_or(dict_get(images, "flatlay", None), LookFlatlayPlaceholder)),
    ImgNext, Val(py_or(dict_get(images, "closeup", None), LookCloseupPlaceholder))>>

render_html(sections, products, images) ==
  <<HtmlHead, Val(py_str(dict_get(sections, "hero_title", "Zenview Eyewear"))),
    HeroSubOpen, Val(py_str(dict_get(sections, "hero_subtitle", "See Without Noise"))),
    HeroCtaOpen, Val(py_str(dict_get(sections, "hero_cta", "Shop the Collection"))),
    HeroMediaOpen, Val(py_or(dict_get(images, "hero", None), HeroPlaceholder)),
    CollectionsOpen>>
  \o render_cards(products)
  \o <<StoryOpen, Val(py_or(dict_get(images, "lifestyle", None), StoryPlaceholder)),
       StoryTitleOpen, Val(py_str(dict_get(sections, "story_title", None))),
       StoryBodyOpen, Val(py_str(dict_get(sections, "story_body", None))),
       CraftOpen, Val(py_str(dict_get(sections, "craft_title", None))),
       FeaturesOpen>>
  \o render_feats(dict_get(sections, "craft_points", <<>>))
  \o <<LookbookOpen, Val(py_str(dict_get(sections, "lookbook_title", None)))>>
  \o render_lookbook(images)
  \o <<TestimonialsOpen>>
  \o render_quotes(dict_get(sections, "testimonials", <<>>))
  \o <<FaqOpen>>
  \o render_faqs(dict_get(sections, "faqs", <<>>))
  \o <<FooterOpen, Val(py_str(dict_get(sections, "hero_subtitle", None))), HtmlTail>>

render_css_themed(theme, accent) ==
  <<CssAccentOpen, Val(py_str(accent)),
    Lit(";--bg:"), Val(py_str(dict_get(theme, "background", "#FAFAF8"))), CssStatic>>
render_css(theme, accent) == <<CssAccentOpen, Val(py_str(accent)), CssStatic>>

build_export_bundle(p) ==
  LET theme == dict_get(p, "theme", <<>>)
      sections == dict_get(p, "sections", <<>>)
      products == dict_get(p, "products", <<>>)
      images == dict_get(p, "images", <<>>)
      accent == dict_get(theme, "accent", "#C2A676")
  IN  [html |-> render_html(sections, products, images),
       css |-> render_css(theme, accent),
       js |-> <<JsStatic>>]

\* the call of build_export_bundle on the record `project`
NoBundle == [html |-> <<>>, css |-> <<>>, js |-> <<>>]

build_export_bundle_call ==
  /\ project # <<>>
  /\ bundle = NoBundle
  /\ bundle' = build_export_bundle(project)
  /\ UNCHANGED <<store, created, req, resp, project>>

\* ------------------------------------------ records handed to the builder
CraftPointValues == {"Premium Italian acetate, hand-polished", "Anti-reflective Zeiss lenses"}
TestimonialValues == {"Understated and impeccably made.", "The only frames I wear now."}
FaqValues == {[q |-> "What makes Zenview different?",
               a |-> "A focus on restraint, proportion and material honesty."],
              [q |-> "Do you ship internationally?",
               a |-> "Yes, we ship worldwide with premium tracked service."]}
ProductValues == {Product("Aero 01", 420, "Sculptural acetate, balanced silhouette", None),
                  Product("Linea 02", 460, "Slim titanium, architectural lines",
                          "https://cdn.zenview.example/linea.png")}

SectionsCustom(points, quotes, faqs) ==
  [hero_title |-> "Atelier Nord", hero_subtitle |-> "Less, but better",
   hero_cta |-> "Explore", story_title |-> "Our Story", story_body |-> "Made slowly.",
   craft_title |-> "Craft", craft_points |-> points, lookbook_title |-> "Looks",
   testimonials |-> quotes, faqs |-> faqs]

SectionsInputs ==
  {SectionsCustom(c, <<>>, <<>>) : c \in SeqsUpTo(CraftPointValues, MaxLen)}
  \cup {SectionsCustom(<<>>, t, <<>>) : t \in SeqsUpTo(TestimonialValues, MaxLen)}
  \cup {SectionsCustom(<<>>, <<>>, f) : f \in SeqsUpTo(FaqValues, MaxLen)}
  \cup {Restrict(SectionsDefault, DOMAIN SectionsDefault \ {k}) : k \in DOMAIN SectionsDefault}
  \cup {SectionsDefault, <<>>}

ThemeInputs ==
  {<<>>, [accent |-> "#ABCDEF"], ThemeDefault,
   [ThemeDefault EXCEPT !.background = "#000000"],
   [ThemeDefault EXCEPT !.accent = "#ABCDEF", !.background = "#000000"]}

ProductsInputs == SeqsUpTo(ProductValues, MaxLen)

SlotUrl(slot) == "https://cdn.zenview.example/" \o slot \o ".png"

ImagesInputs ==
  {<<>>, [s \in ImageSlots |-> ""]}
  \cup {[s \in ImageSlots |-> IF s \in present THEN SlotUrl(s) ELSE None] :
          present \in SUBSET ImageSlots}

GroupKeys == {"theme", "sections", "products", "images"}

\* every group present, one group missing, or all of them missing
KeySets == {GroupKeys} \cup {GroupKeys \ {k} : k \in GroupKeys} \cup {{}}

ProjectRecord(t, s, p, i, keys) ==
  Restrict([name |-> "Zenview Eyewear", theme |-> t, sections |-> s,
            products |-> p, images |-> i], keys \cup {"name"})

ImagesMixed == [ImagesDefault EXCEPT !.hero = SlotUrl("hero"), !.flatlay = SlotUrl("flatlay")]

\* three families: the lists vary, the image slots vary, the theme varies
RenderInputs ==
  {ProjectRecord(t, s, p, i, keys) :
     t \in {ThemeDefault}, s \in SectionsInputs, p \in ProductsInputs,
     i \in {ImagesDefault, ImagesMixed}, keys \in KeySets}
  \cup
  {ProjectRecord(t, s, p, i, keys) :
     t \in {ThemeDefault}, s \in {SectionsDefault, <<>>}, p \in ProductsInputs,
     i \in ImagesInputs, keys \in KeySets}
  \cup
  {ProjectRecord(t, s, p, i, keys) :
     t \in ThemeInputs, s \in {SectionsDefault, SectionsCustom(<<>>, <<>>, <<>>), <<>>},
     p \in {<<>>, ProductsDefault}, i \in {ImagesDefault, ImagesMixed, <<>>},
     keys \in KeySets}

\* ------------------------------------------------------------ HTTP layer
NoRequest == [op |-> "none", project_id |-> 0, payload_id |-> 0, payload_project |-> <<>>]
NoResponse == [status_code |-> 0, body |-> <<>>]

\* outcomes of a handler body, and the exceptions it can raise
Return(value) == [kind |-> "return", value |-> value, exc |-> <<>>]
Raise(exc) == [kind |-> "raise", value |-> <<>>, exc |-> exc]

HTTPException(status_code, detail) ==
  [type |-> "HTTPException", status_code |-> status_code, detail |-> detail]
InvalidId == [type |-> "InvalidId", status_code |-> 0,
              detail |-> "not a valid ObjectId, it must be a 12-byte input or a 24-character hex string"]

\* str(e): an HTTPException prints as "<status_code>: <detail>"
py_str_exc(e) ==
  IF e.type = "HTTPException" THEN ToString(e.status_code) \o ": " \o e.detail ELSE e.detail

\* `except Exception as e: raise HTTPException(status_code=500, detail=str(e))`
\* HTTPException is itself an Exception, so the handler's own 4xx is caught too
except_Exception(outcome) ==
  IF outcome.kind = "raise" THEN Raise(HTTPException(500, py_str_exc(outcome.exc)))
  ELSE outcome

\* the framework's response to what leaves the handler
Respond(outcome) ==
  IF outcome.kind = "raise"
  THEN [status_code |-> outcome.exc.status_code, body |-> [detail |-> outcome.exc.detail]]
  ELSE [status_code |-> 200, body |-> outcome.value]

Request(op, project_id, payload_id, payload_project) ==
  [op |-> op, project_id |-> project_id, payload_id |-> payload_id,
   payload_project |-> payload_project]

\* id strings of requests: n >= 1 stands for the n-th 24-character hex string,
\* 0 for a string that is no ObjectId
PathIds == 0..(MaxDocs + 1)
IsObjectIdString(s) == s >= 1
ObjectId(s) == <<"ObjectId", s>>
oid_str(oid) == oid[2]

\* whether the collection holds a document for the id string
StoredIn(coll, s) == IsObjectIdString(s) /\ ObjectId(s) \in DOMAIN coll

\* Project.model_dump(): every declared field, set or defaulted
model_dump_exclude_none(p) ==
  [k \in {f \in ProjectFields :
            f \notin {"description", "exported_html", "published_path"} \/ p[f] # None}
     |-> p[k]]
model_dump(p) == [k \in ProjectFields |-> p[k]]

\* database.create_document: insert the dumped model under a fresh _id
create_document(coll, p) ==
  LET oid == ObjectId(Cardinality(DOMAIN coll) + 1)
      doc == [k \in ProjectFields \cup {"_id"} |->
                IF k = "_id" THEN oid ELSE p[k]]
  IN  [coll |-> [o \in DOMAIN coll \cup {oid} |-> IF o = oid THEN doc ELSE coll[o]],
       id |-> oid_str(oid)]

\* database.get_documents: every document of the collection
get_documents(coll) ==
  [n \in 1..Cardinality(DOMAIN coll) |-> coll[ObjectId(n)]]

\* d["id"] = str(d.pop("_id"))
rename_id_drop_images(d) ==
  [k \in (DOMAIN d \ {"_id", "images"}) \cup {"id"} |->
     IF k = "id" THEN oid_str(d["_id"]) ELSE d[k]]
rename_id(d) ==
  [k \in (DOMAIN d \ {"_id"}) \cup {"id"} |-> IF k = "id" THEN oid_str(d["_id"]) ELSE d[k]]

\* update_one(filter by _id, {"$set": data}), no upsert
set_fields(doc, data) ==
  [k \in DOMAIN doc \cup DOMAIN data |-> IF k \in DOMAIN data THEN data[k] ELSE doc[k]]
update_one_upsert(coll, oid, data) ==
  [o \in DOMAIN coll \cup {oid} |->
     IF o # oid THEN coll[o]
     ELSE IF oid \in DOMAIN coll THEN set_fields(coll[oid], data)
     ELSE set_fields([x \in {"_id"} |-> oid], data)]
update_one(coll, oid, data) ==
  IF oid \in DOMAIN coll THEN [coll EXCEPT ![oid] = set_fields(@, data)] ELSE coll

\* the zip archive of the three artifacts
ZipFiles(b) == [index_html |-> b.html, styles_css |-> b.css, main_js |-> b.js]

\* ------------------------------------------------ projects of requests
ProjectAtelier ==
  [name |-> "Atelier Nord", description |-> "Quiet frames",
   products |-> <<Product("Linea 02", 460, "Slim titanium, architectural lines",
                          "https://cdn.zenview.example/linea.png")>>,
   theme |-> [ThemeDefault EXCEPT !.accent = "#ABCDEF", !.background = "#000000"],
   sections |-> SectionsCustom(<<"Anti-reflective Zeiss lenses">>, <<>>, <<>>),
   images |-> ImagesMixed,
   exported_html |-> "<!doctype html><!-- cached -->", published_path |-> "/preview/atelier"]

ProjectBare ==
  [name |-> "Bare", description |-> None, products |-> <<>>,
   theme |-> ThemeDefault,
   sections |-> SectionsCustom(<<>>, <<"Understated and impeccably made.">>, <<>>),
   images |-> [ImagesDefault EXCEPT !.closeup = SlotUrl("closeup")],
   exported_html |-> None, published_path |-> None]

ProjectValues == {ProjectDefault, ProjectAtelier, ProjectBare}

\* ------------------------------------------------------------- handlers
\* POST /api/projects
create_project ==
  \E p \in ProjectValues :
    /\ Cardinality(DOMAIN store) < MaxDocs
    /\ LET r == create_document(store, p)
       IN  /\ store' = r.coll
           /\ created' = [o \in DOMAIN created \cup {ObjectId(r.id)} |->
                            IF o = ObjectId(r.id) THEN p ELSE created[o]]
           /\ req' = Request("create_project", 0, 0, p)
           /\ resp' = Respond(except_Exception(Return([id |-> r.id])))
    /\ UNCHANGED <<project, bundle>>

\* GET /api/projects
list_projects ==
  /\ LET docs == get_documents(store)
     IN  resp' = Respond(except_Exception(
                   Return([n \in 1..Len(docs) |-> rename_id(docs[n])])))
  /\ req' = Request("list_projects", 0, 0, <<>>)
  /\ UNCHANGED <<store, created, project, bundle>>

get_project_body(coll, project_id) ==
  IF ~IsObjectIdString(project_id) THEN Raise(InvalidId)
  ELSE IF ObjectId(project_id) \notin DOMAIN coll
       THEN Raise(HTTPException(404, "Project not found"))
       ELSE Return(rename_id(coll[ObjectId(project_id)]))

\* GET /api/projects/{project_id}
get_project ==
  \E project_id \in PathIds :
    /\ req' = Request("get_project", project_id, 0, <<>>)
    /\ resp' = Respond(except_Exception(get_project_body(store, project_id)))
    /\ UNCHANGED <<store, created, project, bundle>>

update_project_body(project_id, payload_id) ==
  IF project_id # payload_id THEN Raise(HTTPException(400, "Mismatched ids"))
  ELSE IF ~IsObjectIdString(project_id) THEN Raise(InvalidId)
       ELSE Return([status |-> "ok"])

\* PUT /api/projects/{project_id}
update_project ==
  \E project_id \in PathIds, payload_id \in PathIds, p \in ProjectValues :
    LET out == update_project_body(project_id, payload_id)
        oid == ObjectId(project_id)
    IN  /\ req' = Request("update_project", project_id, payload_id, p)
        /\ resp' = Respond(except_Exception(out))
        /\ store' = IF out.kind = "return" THEN update_one(store, oid, model_dump(p))
                    ELSE store
        /\ created' = IF out.kind = "return"
                      THEN [o \in DOMAIN created \ {oid} |-> created[o]]
                      ELSE created
        /\ UNCHANGED <<project, bundle>>

export_project_zip_body(coll, project_id) ==
  IF ~IsObjectIdString(project_id) THEN Raise(InvalidId)
  ELSE IF ObjectId(project_id) \notin DOMAIN coll
       THEN Raise(HTTPException(404, "Project not found"))
       ELSE Return([media_type |-> "application/zip",
                    filename |-> "zenview-" \o ToString(project_id) \o ".zip",
                    files |-> ZipFiles(build_export_bundle(coll[ObjectId(project_id)]))])

\* an export that also caches the page in the document
export_project_zip_caching ==
  \E project_id \in PathIds :
    /\ req' = Request("export_project_zip", project_id, 0, <<>>)
    /\ resp' = Respond(except_Exception(export_project_zip_body(store, project_id)))
    /\ store' = IF StoredIn(store, project_id)
                THEN update_one(store, ObjectId(project_id),
                                [exported_html |-> "<!doctype html>"])
                ELSE store
    /\ UNCHANGED <<created, project, bundle>>

\* GET /api/projects/{project_id}/export.zip
export_project_zip ==
  \E project_id \in PathIds :
    /\ req' = Request("export_project_zip", project_id, 0, <<>>)
    /\ resp' = Respond(except_Exception(export_project_zip_body(store, project_id)))
    /\ UNCHANGED <<store, created, project, bundle>>

Init ==
  /\ store = <<>>
  /\ created = <<>>
  /\ req = NoRequest
  /\ resp = NoResponse
  /\ project = <<>>
  /\ bundle = NoBundle

Next ==
  \/ create_project
  \/ list_projects
  \/ get_project
  \/ update_project
  \/ export_project_zip

Spec == Init /\ [][Next]_vars

\* ------------------------------------------------- claims on the handlers
\* C1 (as claimed): a get_project or export_project_zip request for a
\* well-formed id with no matching document is answered 404, and leaves the
\* collection unchanged.
C1_MissingProjectIs404 ==
  [][(req'.op \in {"get_project", "export_project_zip"}
        /\ IsObjectIdString(req'.project_id)
        /\ ~StoredIn(store, req'.project_id))
       => (resp'.status_code = 404 /\ store' = store)]_vars

\* C2 (as claimed): an update_project request whose path id differs from the
\* body id is answered 400, and no stored document is modified.
C2_MismatchedIdsIs400 ==
  [][(req'.op = "update_project" /\ req'.project_id # req'.payload_id)
       => (resp'.status_code = 400 /\ store' = store)]_vars

\* C3: after a successful update of an existing project the stored document
\* holds exactly the identity field and the Project fields, each with the
\* value of the request body.
C3_UpdateReplacesDocument ==
  [][(req'.op = "update_project" /\ resp'.status_code = 200
        /\ StoredIn(store, req'.project_id))
       => LET d == store'[ObjectId(req'.project_id)]
          IN  /\ DOMAIN d = ProjectFields \cup {"_id"}
              /\ d["_id"] = ObjectId(req'.project_id)
              /\ \A f \in ProjectFields : d[f] = req'.payload_project[f]]_vars

\* an update went through on a stored project whose body leaves description,
\* exported_html and published_path unset
C3_Witness ==
  /\ req.op = "update_project"
  /\ resp.status_code = 200
  /\ StoredIn(store, req.project_id)
  /\ ObjectId(req.project_id) \notin DOMAIN created
  /\ req.payload_project.description = None
  /\ req.payload_project.exported_html = None

\* C4: while a created project has not been updated, get_project answers with
\* every Project field at the value it was created with and the identity
\* under "id" (no "_id"), and export_project_zip packs the bundle built from
\* those same values.
C4_RoundTrip ==
  (IsObjectIdString(req.project_id) /\ ObjectId(req.project_id) \in DOMAIN created)
    => LET P == created[ObjectId(req.project_id)]
       IN  /\ req.op = "get_project" =>
                /\ resp.status_code = 200
                /\ ProjectFields \cup {"id"} \subseteq DOMAIN resp.body
                /\ "_id" \notin DOMAIN resp.body
                /\ resp.body.id = req.project_id
                /\ \A f \in ProjectFields : resp.body[f] = P[f]
           /\ req.op = "export_project_zip" =>
                /\ resp.status_code = 200
                /\ resp.body.files = ZipFiles(build_export_bundle(P))

\* a fetch of a created, never updated project that has products and images
C4_Witness ==
  /\ req.op = "get_project"
  /\ StoredIn(store, req.project_id)
  /\ ObjectId(req.project_id) \in DOMAIN created
  /\ created[ObjectId(req.project_id)] = ProjectAtelier
  /\ resp.status_code = 200

\* C9: an export request leaves every stored document unchanged.
C9_ExportLeavesStore ==
  [][req'.op = "export_project_zip" => store' = store]_vars

\* an export of a stored project went through
C9_Witness ==
  /\ req.op = "export_project_zip"
  /\ StoredIn(store, req.project_id)
  /\ resp.status_code = 200
  /\ resp.body.files.index_html # <<>>

\* C10 (as claimed): an update with equal ids that names no stored project
\* leaves the collection unchanged and is answered {"status": "ok"}; the set
\* of stored ids changes only in create_project.
C10_UpdateNeverCreates_Original ==
  [][/\ (req'.op = "update_project" /\ req'.project_id = req'.payload_id
           /\ ~StoredIn(store, req'.project_id))
          => (store' = store /\ resp'.status_code = 200
                /\ resp'.body = [status |-> "ok"])
     /\ DOMAIN store' # DOMAIN store => req'.op = "create_project"]_vars

\* C10 (amended): such an update leaves the collection unchanged; it is
\* answered {"status": "ok"} when the id is a well-formed ObjectId string and
\* 500 when it is not; the set of stored ids changes only in create_project.
C10_UpdateNeverCreates ==
  [][/\ (req'.op = "update_project" /\ req'.project_id = req'.payload_id
           /\ ~StoredIn(store, req'.project_id))
          => /\ store' = store
             /\ IF IsObjectIdString(req'.project_id)
                THEN resp'.status_code = 200 /\ resp'.body = [status |-> "ok"]
                ELSE resp'.status_code = 500
     /\ DOMAIN store' # DOMAIN store => req'.op = "create_project"]_vars

\* an update of a well-formed id that names no stored project was answered ok
\* while other projects are stored
C10_Witness ==
  /\ req.op = "update_project"
  /\ req.project_id = req.payload_id
  /\ IsObjectIdString(req.project_id)
  /\ ~StoredIn(store, req.project_id)
  /\ resp.status_code = 200
  /\ DOMAIN store # {}

InitBundle ==
  /\ store = <<>>
  /\ created = <<>>
  /\ req = NoRequest
  /\ resp = NoResponse
  /\ project \in RenderInputs
  /\ bundle = NoBundle

NextBundle == build_export_bundle_call

SpecBundle == InitBundle /\ [][NextBundle]_vars

\* ------------------------------------------- reading a rendered bundle
Built == bundle # NoBundle

RECURSIVE ValuesAfter(_, _)
\* the values interpolated right after each occurrence of the literal `lit`
ValuesAfter(toks, lit) ==
  IF Len(toks) < 2 THEN <<>>
  ELSE (IF toks[1] = lit THEN <<toks[2].s>> ELSE <<>>) \o ValuesAfter(Tail(toks), lit)

Count(toks, lit) == Cardinality({i \in DOMAIN toks : toks[i] = lit})

InProducts == dict_get(project, "products", <<>>)
InSections == dict_get(project, "sections", <<>>)
InImages == dict_get(project, "images", <<>>)
InTheme == dict_get(project, "theme", <<>>)

\* C5: the rendered page holds exactly one card per product, one feature row
\* per craft point, one blockquote per testimonial and one details entry per
\* FAQ, each in list order; the four section wrappers are present once
\* whatever the lists hold.
C5_OneElementPerEntry ==
  Built =>
    LET h == bundle.html
        points == dict_get(InSections, "craft_points", <<>>)
        quotes == dict_get(InSections, "testimonials", <<>>)
        faqs == dict_get(InSections, "faqs", <<>>)
    IN  /\ Count(h, CardOpen) = Len(InProducts)
        /\ Count(h, CardClose) = Len(InProducts)
        /\ ValuesAfter(h, CardNameOpen) = [i \in 1..Len(InProducts) |-> InProducts[i].name]
        /\ Count(h, FeatClose) = Len(points)
        /\ ValuesAfter(h, FeatOpen) = points
        /\ Count(h, QuoteClose) = Len(quotes)
        /\ ValuesAfter(h, QuoteOpen) = quotes
        /\ Count(h, DetailsClose) = Len(faqs)
        /\ ValuesAfter(h, DetailsOpen) = [i \in 1..Len(faqs) |-> faqs[i].q]
        /\ ValuesAfter(h, DetailsAnswerOpen) = [i \in 1..Len(faqs) |-> faqs[i].a]
        /\ Count(h, CollectionsOpen) = 1
        /\ Count(h, FeaturesOpen) = 1
        /\ Count(h, TestimonialsOpen) = 1
        /\ Count(h, FaqOpen) = 1

\* a render of two different products next to an empty testimonial list
C5_Witness ==
  /\ Built
  /\ Len(InProducts) = MaxLen
  /\ InProducts[1] # InProducts[2]
  /\ "testimonials" \in DOMAIN InSections
  /\ InSections.testimonials = <<>>
  /\ Len(dict_get(InSections, "craft_points", <<>>)) = MaxLen

\* C6 (as claimed): every Sections text field that is missing from the record
\* is rendered as its schema default, the accent as its default, and no
\* interpolated value is the absent-value marker "None".
C6_MissingFieldsDegradeToDefaults ==
  Built =>
    LET h == bundle.html
        shown(k) == dict_get(InSections, k, SectionsDefault[k])
    IN  /\ ValuesAfter(h, HtmlHead) = <<shown("hero_title")>>
        /\ ValuesAfter(h, HeroSubOpen) = <<shown("hero_subtitle")>>
        /\ ValuesAfter(h, HeroCtaOpen) = <<shown("hero_cta")>>
        /\ ValuesAfter(h, StoryTitleOpen) = <<shown("story_title")>>
        /\ ValuesAfter(h, StoryBodyOpen) = <<shown("story_body")>>
        /\ ValuesAfter(h, CraftOpen) = <<shown("craft_title")>>
        /\ ValuesAfter(h, LookbookOpen) = <<shown("lookbook_title")>>
        /\ ValuesAfter(h, FooterOpen) = <<shown("hero_subtitle")>>
        /\ \A i \in DOMAIN h : h[i].kind = "val" => h[i].s # "None"
        /\ ValuesAfter(bundle.css, CssAccentOpen) = <<dict_get(InTheme, "accent", ThemeDefault.accent)>>

\* the URL a slot holds, if it holds one
HasUrl(d, slot) == slot \in DOMAIN d /\ d[slot] # None /\ d[slot] # ""
RefOf(d, slot, placeholder) == IF HasUrl(d, slot) THEN d[slot] ELSE placeholder

\* C7: every image reference of the page is the stored URL of its slot or that
\* slot's placeholder, never empty: hero, story, one per product card, and
\* the three lookbook slots in the order lifestyle, flatlay, closeup.
C7_ImageRefs ==
  Built =>
    LET h == bundle.html
        refs == ValuesAfter(h, HeroMediaOpen) \o ValuesAfter(h, CardOpen)
                \o ValuesAfter(h, StoryOpen) \o ValuesAfter(h, MasonryOpen)
                \o ValuesAfter(h, ImgNext)
    IN  /\ ValuesAfter(h, HeroMediaOpen) = <<RefOf(InImages, "hero", HeroPlaceholder)>>
        /\ ValuesAfter(h, StoryOpen) = <<RefOf(InImages, "lifestyle", StoryPlaceholder)>>
        /\ ValuesAfter(h, CardOpen) =
             [i \in 1..Len(InProducts) |-> RefOf(InProducts[i], "image", FramePlaceholder)]
        /\ ValuesAfter(h, MasonryOpen) \o ValuesAfter(h, ImgNext) =
             <<RefOf(InImages, "lifestyle", LookLifestylePlaceholder),
               RefOf(InImages, "flatlay", LookFlatlayPlaceholder),
               RefOf(InImages, "closeup", LookCloseupPlaceholder)>>
        /\ \A i \in DOMAIN refs : refs[i] # "" /\ refs[i] # "None"

\* flatlay stored, closeup and hero not, and a card without an image
C7_Witness ==
  /\ Built
  /\ HasUrl(InImages, "flatlay")
  /\ "closeup" \in DOMAIN InImages /\ InImages.closeup = None
  /\ ~HasUrl(InImages, "hero")
  /\ HasUrl(InImages, "lifestyle")
  /\ \E i \in DOMAIN InProducts : InProducts[i].image = None
  /\ \E i \in DOMAIN InProducts : InProducts[i].image # None

EffectiveAccent(p) == dict_get(dict_get(p, "theme", <<>>), "accent", ThemeDefault.accent)

\* records that differ from one another in theme, sections, products, images
AccentPeers ==
  {ProjectRecord(t, s, p, i, keys) :
     t \in ThemeInputs, s \in {SectionsDefault, <<>>},
     p \in {<<>>, ProductsDefault}, i \in {[x \in ImageSlots |-> SlotUrl(x)]},
     keys \in {GroupKeys, GroupKeys \ {"theme"}}}

\* C8: the stylesheet declares --accent with the stored accent (#C2A676 when
\* the theme has none), and every record with the same accent, whatever else
\* it holds, yields the same stylesheet.
C8_CssDependsOnAccentOnly ==
  Built =>
    /\ ValuesAfter(bundle.css, CssAccentOpen) =
         <<IF "accent" \in DOMAIN InTheme THEN InTheme.accent ELSE "#C2A676">>
    /\ \A q \in AccentPeers :
         EffectiveAccent(q) = EffectiveAccent(project)
           => build_export_bundle(q).css = bundle.css

\* a custom accent next to a custom background, with a peer of another background
C8_Witness ==
  /\ Built
  /\ "accent" \in DOMAIN InTheme /\ InTheme.accent = "#ABCDEF"
  /\ "background" \in DOMAIN InTheme /\ InTheme.background = "#000000"
  /\ \E q \in AccentPeers :
       /\ EffectiveAccent(q) = EffectiveAccent(project)
       /\ dict_get(dict_get(q, "theme", <<>>), "background", "") # InTheme.background

====
